---- MODULE Spec2Model ----
(***************************************************************************)
(* Model of the live-update client WebSocketService                        *)
(* (src/frontend/src/store/index.ts, lines 135-285) together with the      *)
(* browser transports it creates.  Every handler of the class runs to      *)
(* completion on the single event loop, so every handler is one action.    *)
(*                                                                         *)
(* The handlers of every transport are bound to the service itself, so a   *)
(* transport that this.socket no longer references still delivers its      *)
(* events.  Such transports are interchangeable: the model keeps the       *)
(* current one as a record and the others as counts per kind.              *)
(***************************************************************************)
EXTENDS Integers, Sequences, FiniteSets

\* ---------------------------------------------------------------- bounds
\* transports that may be alive (CONNECTING, OPEN or CLOSING) at once
MaxLive == 2
\* reconnect timers (setTimeout callbacks) that may be pending at once
MaxTimers == 2
\* messages recorded for the current transport
MaxWritten == 2
\* app/websocketError dispatches recorded
MaxErrors == 1
\* store dispatches recorded from handleMessage
MaxDispatch == 2
\* keepalive periods of silence after which the spec wants a reconnect (N)
KeepaliveTolerance == 2

\* ------------------------------------------------------ program constants
maxReconnectAttempts == 5
BaseTimeout == 1000
NormalClosure == 1000
AbnormalClosure == 1006

Users == {"u1", "u2"}
NoUser == "none"
Tokens == {"tok"}
NoToken == "null"
CloseCodes == {NormalClosure, AbnormalClosure}
\* inbound frames: the five registered types, an unregistered type, an
\* object without type, the JSON value null, and text that is not JSON
Routed == {"chat_message", "goal_update", "transaction_update", "post_update"}
Frames == Routed \cup {"pong", "unknown-xyz", "no-type", "json-null", "not-json"}
\* what a transport that is no longer this.socket can still do
\* the user and the frames the specifications with other traffic draw from
Caller == "u1"
Probe == {"chat_message", "pong"}
StaleKinds == {"CONNECTING:handleOpen", "CONNECTING:handshake", "OPEN", "CLOSING"}

VARIABLES
  socket,             \* this.socket: the current transport, or Null
  stale,              \* live transports this.socket no longer references, per kind
  reconnectAttempts,  \* this.reconnectAttempts
  reconnectTimeout,   \* this.reconnectTimeout
  pingInterval,       \* this.pingInterval: "null" or "armed"
  userId,             \* this.userId
  token,              \* store.getState().auth.token
  timers,             \* pending setTimeout callbacks of attemptReconnect
  leaked,             \* some armed ping interval has lost its handle
  errors,             \* app/websocketError dispatches so far
  dispatched,         \* store dispatches made by handleMessage, in order
  doomed,             \* timers that were pending when disconnect() was called
  lastSched,          \* <<attempt counter, delay>> of the latest setTimeout, or <<>>
  run,                \* abnormal closes since the last open event, up to 3
  silent,             \* keepalive periods without inbound traffic while Open
  arrived,            \* routed frames the transports delivered, in order
  escaped,            \* an exception has left handleMessage
  refused,            \* send() has reported 'WebSocket is not connected'
  diag,               \* the latest console line of handleMessage, or <<>>
  connected,          \* state.websocket.connected
  error,              \* state.websocket.error: "null" or a message
  thunk               \* how the latest connectWebSocket thunk ended

vars == <<socket, stale, reconnectAttempts, reconnectTimeout, pingInterval,
          userId, token, timers, leaked, errors, dispatched, doomed,
          lastSched, run, silent, arrived, escaped, refused, diag,
          connected, error, thunk>>

\* ---------------------------------------------------------------- helpers
\* code is the code of the close event once the transport is CLOSED; asked
\* is the identity of the latest connect() call that met the transport as
\* this.socket while it was alive
Null ==
  [readyState |-> "NULL", onopen |-> "none", user |-> NoUser, written |-> <<>>,
   code |-> 0, asked |-> NoUser]

\* a transport whose URL does not carry the identity passed to connect
NewSocket_FixedUser(u) ==
  [readyState |-> "CONNECTING",
   onopen |-> IF token # NoToken THEN "handshake" ELSE "handleOpen",
   user |-> "u1",
   written |-> <<>>,
   code |-> 0,
   asked |-> u]

\* new WebSocket(wsUrl) with the onopen that connect() leaves on it
NewSocket(u) ==
  [readyState |-> "CONNECTING",
   onopen |-> IF token # NoToken THEN "handshake" ELSE "handleOpen",
   user |-> u,
   written |-> <<>>,
   code |-> 0,
   asked |-> u]

KindOf(t) ==
  IF t.readyState = "CONNECTING" THEN "CONNECTING:" \o t.onopen ELSE t.readyState

StaleTotal(b) ==
  b["CONNECTING:handleOpen"] + b["CONNECTING:handshake"] + b["OPEN"] + b["CLOSING"]

IsLive(t) == t.readyState \in {"CONNECTING", "OPEN"}

IsOpen(t) == t.readyState = "OPEN"

\* a send that does not look at readyState
Write_Unchecked(t, msg) ==
  IF IsLive(t) /\ Len(t.written) < MaxWritten
  THEN [t EXCEPT !.written = Append(@, msg)]
  ELSE t

\* WebSocket.send on transport t: written when OPEN (the log keeps the first
\* MaxWritten messages), discarded when CLOSED, nothing when there is none
Write(t, msg) ==
  IF t.readyState = "OPEN" /\ Len(t.written) < MaxWritten
  THEN [t EXCEPT !.written = Append(@, msg)]
  ELSE t

Init ==
  /\ socket = Null
  /\ stale = [k \in StaleKinds |-> 0]
  /\ reconnectAttempts = 0
  /\ reconnectTimeout = BaseTimeout
  /\ pingInterval = "null"
  /\ userId = NoUser
  /\ token = NoToken
  /\ timers = 0
  /\ leaked = FALSE
  /\ errors = 0
  /\ dispatched = <<>>
  /\ doomed = 0
  /\ lastSched = <<>>
  /\ run = 0
  /\ silent = 0
  /\ arrived = <<>>
  /\ escaped = FALSE
  /\ refused = FALSE
  /\ diag = <<>>
  /\ connected = FALSE
  /\ error = "null"
  /\ thunk = "none"

\* ------------------------------------------------------------- connect()
\* a connect that never returns early
ConnectReturnsEarly_Never == FALSE

\* connect returns early only when this.socket is OPEN
ConnectReturnsEarly == IsOpen(socket)

\* the transport this.socket pointed to is dropped without being closed: it
\* stays alive when it was CONNECTING
ConnectStale ==
  IF ~ConnectReturnsEarly /\ IsLive(socket)
  THEN [stale EXCEPT ![KindOf(socket)] = @ + 1]
  ELSE stale

ConnectSocket(u) ==
  IF ConnectReturnsEarly THEN [socket EXCEPT !.asked = u] ELSE NewSocket(u)

ConnectUserId(u) == IF ConnectReturnsEarly THEN userId ELSE u

ConnectEnabled == ConnectReturnsEarly \/ StaleTotal(ConnectStale) < MaxLive

\* connect(userId) of the service
ServiceConnect(u) ==
  /\ ConnectEnabled
  /\ stale' = ConnectStale
  /\ socket' = ConnectSocket(u)
  /\ userId' = ConnectUserId(u)
  /\ doomed' = 0
  /\ silent' = IF ConnectReturnsEarly THEN silent ELSE 0
  /\ UNCHANGED <<reconnectAttempts, reconnectTimeout, pingInterval, token,
                 timers, leaked, errors, dispatched, lastSched, run, 
                 arrived, escaped, refused, diag>>

\* the caller's connect(userId), made on the service directly
Connect(u) == ServiceConnect(u) /\ UNCHANGED <<connected, error, thunk>>

\* ---------------------------------------------------------- disconnect()
ServiceDisconnect ==
  /\ stale' = IF IsLive(socket) THEN [stale EXCEPT !["CLOSING"] = @ + 1] ELSE stale
  /\ socket' = Null
  /\ pingInterval' = "null"
  /\ doomed' = timers
  /\ silent' = 0
  /\ UNCHANGED <<reconnectAttempts, reconnectTimeout, userId, token, timers,
                 leaked, errors, dispatched, lastSched, run, 
                 arrived, escaped, refused, diag>>

\* the caller's disconnect(), made on the service directly
Disconnect == ServiceDisconnect /\ UNCHANGED <<connected, error, thunk>>

\* ------------------------------------------- the thunks of websocketSlice
\* connectWebSocket(userId).  throws tells that new WebSocket(wsUrl) throws
\* (the URL is not a valid ws: URL): connect() has stored the identity by
\* then.  In the catch block the name error is the caught exception, not the
\* action creator, so calling it throws a TypeError out of the thunk.
ThunkConnect(u, throws) ==
  /\ throws => ~ConnectReturnsEarly
  /\ IF throws
     THEN /\ userId' = u
          /\ doomed' = 0
          /\ thunk' = "threw"
          /\ UNCHANGED <<socket, stale, silent, connected, error>>
          /\ UNCHANGED <<reconnectAttempts, reconnectTimeout, pingInterval, token,
                         timers, leaked, errors, dispatched, lastSched, run,
                         arrived, escaped, refused, diag>>
     ELSE /\ ServiceConnect(u)
          /\ connected' = TRUE
          /\ error' = "null"
          /\ thunk' = "ok"

\* disconnectWebSocket()
ThunkDisconnect ==
  /\ ServiceDisconnect
  /\ connected' = FALSE
  /\ UNCHANGED <<error, thunk>>

\* ----------------------------------------------------------------- send()
\* send(data): written when this.socket is OPEN, otherwise the failure is
\* logged and the data dropped
Refused == refused \/ ~IsOpen(socket)

Send ==
  /\ socket' = Write(socket, "data")
  /\ refused' = Refused
  /\ UNCHANGED <<stale, reconnectAttempts, reconnectTimeout, pingInterval, userId,
                 token, timers, leaked, errors, dispatched, doomed, lastSched,
                 run, silent, arrived, escaped, diag,
                 connected, error, thunk>>

\* the ping interval callback: this.send({ type: 'ping' })
PingFire ==
  /\ pingInterval = "armed" \/ leaked
  /\ socket' = Write(socket, "ping")
  /\ refused' = Refused
  /\ silent' = IF IsOpen(socket) /\ silent < KeepaliveTolerance
               THEN silent + 1 ELSE silent
  /\ UNCHANGED <<stale, reconnectAttempts, reconnectTimeout, pingInterval, userId,
                 token, timers, leaked, errors, dispatched, doomed, lastSched, run,
                 arrived, escaped, diag,
                 connected, error, thunk>>

\* ------------------------------------------------- the store's auth token
SetToken(t) ==
  /\ token # t
  /\ token' = t
  /\ UNCHANGED <<socket, stale, reconnectAttempts, reconnectTimeout, pingInterval,
                 userId, timers, leaked, errors, dispatched, doomed, lastSched,
                 run, silent, 
                 arrived, escaped, refused, diag,
                 connected, error, thunk>>

\* ------------------------------------------------------- the open event
\* handleOpen that resets the counter and leaves the delay
HandleOpen_KeepsDelay ==
  /\ reconnectAttempts' = 0
  /\ UNCHANGED reconnectTimeout
  /\ leaked' = (leaked \/ pingInterval = "armed")
  /\ pingInterval' = "armed"

\* handleOpen: setInterval overwrites this.pingInterval without clearing it
HandleOpen ==
  /\ reconnectAttempts' = 0
  /\ reconnectTimeout' = BaseTimeout
  /\ leaked' = (leaked \/ pingInterval = "armed")
  /\ pingInterval' = "armed"

Opened(t) == [t EXCEPT !.readyState = "OPEN", !.onopen = "none"]

\* onopen of the current transport: handleOpen, unless connect() found a
\* token and replaced it by the closure that only sends the handshake
SockOpen ==
  /\ socket.readyState = "CONNECTING"
  /\ IF socket.onopen = "handleOpen"
     THEN /\ socket' = Opened(socket)
          /\ HandleOpen
     ELSE /\ socket' = Write(Opened(socket), "handshake")
          /\ UNCHANGED <<reconnectAttempts, reconnectTimeout, leaked, pingInterval>>
  /\ run' = 0
  /\ silent' = 0
  /\ UNCHANGED <<stale, userId, token, timers, errors, dispatched, doomed, lastSched, 
                 arrived, escaped, refused, diag,
                 connected, error, thunk>>

\* onopen of a transport that is no longer this.socket: the same handlers
\* run, and the handshake closure writes to whatever this.socket is now
\* (the send throws while that one is CONNECTING)
StaleOpen(k) ==
  /\ k \in {"CONNECTING:handleOpen", "CONNECTING:handshake"}
  /\ stale[k] > 0
  /\ stale' = [stale EXCEPT ![k] = @ - 1, !["OPEN"] = @ + 1]
  /\ IF k = "CONNECTING:handleOpen"
     THEN /\ HandleOpen
          /\ UNCHANGED socket
     ELSE /\ socket' = Write(socket, "handshake")
          /\ UNCHANGED <<reconnectAttempts, reconnectTimeout, leaked, pingInterval>>
  /\ run' = 0
  /\ UNCHANGED <<userId, token, timers, errors, dispatched, doomed, lastSched, silent, 
                 arrived, escaped, refused, diag,
                 connected, error, thunk>>

\* ---------------------------------------------------- the message event
\* a routing table with two consumers exchanged
ActionType_Crossed(f) ==
  CASE f = "chat_message" -> "goals/goalUpdated"
    [] f = "goal_update" -> "chat/messageReceived"
    [] f = "transaction_update" -> "finance/transactionUpdated"
    [] f = "post_update" -> "community/postUpdated"

\* the action type of each case of the switch
ActionType(f) ==
  CASE f = "chat_message" -> "chat/messageReceived"
    [] f = "goal_update" -> "goals/goalUpdated"
    [] f = "transaction_update" -> "finance/transactionUpdated"
    [] f = "post_update" -> "community/postUpdated"

\* the store dispatch of handleMessage: the payload is message.data; threw
\* tells that the sink threw
Dispatch(f, cur, throws) ==
  [type |-> ActionType(f), payload |-> "message.data", current |-> cur,
   threw |-> throws]

\* what handleMessage prints for frame f: console.error from the catch block
\* (JSON.parse threw, message is null, or the sink threw), console.log from
\* the default branch, nothing otherwise
Diagnostic(f, throws) ==
  IF f \in {"not-json", "json-null"} \/ (f \in Routed /\ throws)
  THEN <<"Error parsing WebSocket message", f>>
  ELSE IF f \in {"unknown-xyz", "no-type"}
       THEN <<"Unhandled message type", f>>
       ELSE diag

\* handleMessage with the newest dispatch put first
HandleMessage_Lifo(f, cur, throws) ==
  /\ IF f \in Routed
     THEN /\ Len(dispatched) < MaxDispatch
          /\ dispatched' = <<Dispatch(f, cur, throws)>> \o dispatched
     ELSE UNCHANGED dispatched
  /\ diag' = Diagnostic(f, throws)
  /\ UNCHANGED escaped

\* handleMessage with the dispatch outside the try block
HandleMessage_NoCatch(f, cur, throws) ==
  /\ IF f \in Routed
     THEN /\ Len(dispatched) < MaxDispatch
          /\ dispatched' = Append(dispatched, Dispatch(f, cur, throws))
     ELSE UNCHANGED dispatched
  /\ diag' = Diagnostic(f, throws)
  /\ escaped' = (escaped \/ (f \in Routed /\ throws))

\* handleMessage whose default branch dispatches the received type
HandleMessage_Passthrough(f, cur, throws) ==
  /\ IF f \in Routed \/ f = "unknown-xyz"
     THEN /\ Len(dispatched) < MaxDispatch
          /\ dispatched' = Append(dispatched,
                                  [type |-> IF f \in Routed THEN ActionType(f) ELSE f,
                                   payload |-> "message.data", current |-> cur,
                                   threw |-> throws])
     ELSE UNCHANGED dispatched
  /\ diag' = Diagnostic(f, throws)
  /\ UNCHANGED escaped

\* handleMessage with JSON.parse and the switch outside the try block
HandleMessage_ParseOutsideTry(f, cur, throws) ==
  /\ IF f \in Routed
     THEN /\ Len(dispatched) < MaxDispatch
          /\ dispatched' = Append(dispatched, Dispatch(f, cur, throws))
     ELSE UNCHANGED dispatched
  /\ diag' = Diagnostic(f, throws)
  /\ escaped' = (escaped \/ f \in {"not-json", "json-null"})

\* handleMessage for frame f; cur tells whether it came from this.socket and
\* throws whether the sink throws.  JSON.parse, the switch and every dispatch
\* sit in one try block whose catch only logs.
HandleMessage(f, cur, throws) ==
  /\ IF f \in Routed
     THEN /\ Len(dispatched) < MaxDispatch
          /\ dispatched' = Append(dispatched, Dispatch(f, cur, throws))
     ELSE UNCHANGED dispatched
  /\ diag' = Diagnostic(f, throws)
  /\ UNCHANGED escaped

\* the order in which the transports deliver the routed frames
Arrive(f) == IF f \in Routed THEN Append(arrived, f) ELSE arrived

SockMessage(f, throws) ==
  /\ IsOpen(socket)
  /\ f \in Routed \/ ~throws
  /\ HandleMessage(f, TRUE, throws)
  /\ arrived' = Arrive(f)
  /\ silent' = 0
  /\ UNCHANGED <<socket, stale, reconnectAttempts, reconnectTimeout, pingInterval,
                 userId, token, timers, leaked, errors, doomed, lastSched, run,
                 refused,
                 connected, error, thunk>>

StaleMessage(f, throws) ==
  /\ stale["OPEN"] > 0
  /\ f \in Routed \/ ~throws
  /\ HandleMessage(f, FALSE, throws)
  /\ arrived' = Arrive(f)
  /\ UNCHANGED <<socket, stale, reconnectAttempts, reconnectTimeout, pingInterval,
                 userId, token, timers, leaked, errors, doomed, lastSched, run, silent,
                 refused,
                 connected, error, thunk>>

\* ------------------------------------------------------ the close event
\* the guard with the comparison off by one
WillRetry_OffByOne == reconnectAttempts <= maxReconnectAttempts /\ userId # NoUser

\* attemptReconnect schedules the retry or reports exhaustion
WillRetry == reconnectAttempts < maxReconnectAttempts /\ userId # NoUser

\* handleClose that retries only a connection handleOpen had set up
HandleClose_OnlyAfterOpen(code) ==
  /\ pingInterval' = "null"
  /\ IF code # NormalClosure /\ pingInterval = "armed"
     THEN /\ run' = IF run < 3 THEN run + 1 ELSE run
          /\ IF WillRetry
             THEN /\ timers < MaxTimers
                  /\ timers' = timers + 1
                  /\ lastSched' = <<reconnectAttempts, reconnectTimeout>>
                  /\ UNCHANGED errors
             ELSE /\ errors < MaxErrors
                  /\ errors' = errors + 1
                  /\ UNCHANGED <<timers, lastSched>>
     ELSE UNCHANGED <<timers, lastSched, run, errors>>

\* handleClose, with the attemptReconnect it calls for every code but 1000
HandleClose(code) ==
  /\ pingInterval' = "null"
  /\ IF code # NormalClosure
     THEN /\ run' = IF run < 3 THEN run + 1 ELSE run
          /\ IF WillRetry
             THEN /\ timers < MaxTimers
                  /\ timers' = timers + 1
                  /\ lastSched' = <<reconnectAttempts, reconnectTimeout>>
                  /\ UNCHANGED errors
             ELSE /\ errors < MaxErrors
                  /\ errors' = errors + 1
                  /\ UNCHANGED <<timers, lastSched>>
     ELSE UNCHANGED <<timers, lastSched, run, errors>>

\* handleError only logs: the service is left as it was
HandleError == UNCHANGED <<reconnectAttempts, reconnectTimeout, userId>>

\* the close event of the current transport.  When the connection failed
\* the browser fires the error event first, in the same task, and then the
\* close event with an abnormal code.
SockClose(code) ==
  /\ IsLive(socket)
  /\ socket' = [socket EXCEPT !.readyState = "CLOSED", !.onopen = "none",
                                !.code = code, !.asked = socket.user]
  /\ IF code # NormalClosure THEN HandleError
     ELSE UNCHANGED <<reconnectAttempts, reconnectTimeout, userId>>
  /\ HandleClose(code)
  /\ silent' = 0
  /\ UNCHANGED <<stale, token, leaked, dispatched, doomed, 
                 arrived, escaped, refused, diag,
                 connected, error, thunk>>

StaleClose(k, code) ==
  /\ stale[k] > 0
  /\ stale' = [stale EXCEPT ![k] = @ - 1]
  /\ IF code # NormalClosure THEN HandleError
     ELSE UNCHANGED <<reconnectAttempts, reconnectTimeout, userId>>
  /\ HandleClose(code)
  /\ UNCHANGED <<socket, token, leaked, dispatched, doomed, silent, 
                 arrived, escaped, refused, diag,
                 connected, error, thunk>>

\* ------------------------------------- the setTimeout callback of a retry
TimerFire(old) ==
  /\ timers > 0
  /\ IF old THEN doomed > 0 ELSE timers > doomed
  /\ ConnectEnabled
  /\ stale' = ConnectStale
  /\ socket' = ConnectSocket(userId)
  /\ userId' = ConnectUserId(userId)
  /\ reconnectAttempts' = reconnectAttempts + 1
  /\ reconnectTimeout' = reconnectTimeout * 2
  /\ timers' = timers - 1
  /\ doomed' = IF old THEN doomed - 1 ELSE doomed
  /\ silent' = IF ConnectReturnsEarly THEN silent ELSE 0
  /\ UNCHANGED <<pingInterval, token, leaked, errors, dispatched, lastSched, run, 
                 arrived, escaped, refused, diag,
                 connected, error, thunk>>

\* ------------------------------------------------------- specifications
\* every action at once, for one user and the frames of Probe
Next ==
  \/ Connect(Caller)
  \/ Disconnect
  \/ Send
  \/ PingFire
  \/ \E t \in Tokens \cup {NoToken} : SetToken(t)
  \/ SockOpen
  \/ \E k \in StaleKinds : StaleOpen(k)
  \/ \E f \in Probe : SockMessage(f, FALSE)
  \/ \E f \in Probe : StaleMessage(f, FALSE)
  \/ \E code \in CloseCodes : SockClose(code)
  \/ \E k \in StaleKinds, code \in CloseCodes : StaleClose(k, code)
  \/ \E old \in BOOLEAN : TimerFire(old)

Spec == Init /\ [][Next]_vars

\* one logical session: the caller connects once and then leaves the client
\* alone; only the current transport, the timers and the store act (no
\* transport is ever superseded)
FirstConnect(u) == userId = NoUser /\ Connect(u)

NextAuto ==
  \/ \E u \in Users : FirstConnect(u)
  \/ Send
  \/ PingFire
  \/ \E t \in Tokens \cup {NoToken} : SetToken(t)
  \/ SockOpen
  \/ \E f \in Probe : SockMessage(f, FALSE)
  \/ \E code \in CloseCodes : SockClose(code)
  \/ \E old \in BOOLEAN : TimerFire(old)

SpecAuto == Init /\ [][NextAuto]_vars

\* the same session with the guarantee the event loop gives: a pending
\* setTimeout callback does run
SpecAutoFair == SpecAuto /\ WF_vars(\E old \in BOOLEAN : TimerFire(old))

\* the inbound traffic of one logical session: every kind of frame, sinks
\* that may throw, and no outbound traffic
NextMsg ==
  \/ \E u \in Users : FirstConnect(u)
  \/ \E t \in Tokens \cup {NoToken} : SetToken(t)
  \/ SockOpen
  \/ \E f \in Frames, throws \in BOOLEAN : SockMessage(f, throws)
  \/ \E code \in CloseCodes : SockClose(code)
  \/ \E old \in BOOLEAN : TimerFire(old)

SpecMsg == Init /\ [][NextMsg]_vars

\* the application: it reaches the service through the thunks only, as
\* App.tsx does
NextStore ==
  \/ \E u \in Users, throws \in BOOLEAN : ThunkConnect(u, throws)
  \/ ThunkDisconnect
  \/ \E t \in Tokens \cup {NoToken} : SetToken(t)
  \/ SockOpen
  \/ \E k \in StaleKinds : StaleOpen(k)
  \/ \E code \in CloseCodes : SockClose(code)
  \/ \E k \in StaleKinds, code \in CloseCodes : StaleClose(k, code)
  \/ \E old \in BOOLEAN : TimerFire(old)

SpecStore == Init /\ [][NextStore]_vars

\* the reconnect machinery alone, under every interleaving of caller calls:
\* no outbound or inbound application traffic
NextRetry ==
  \/ \E u \in Users : Connect(u)
  \/ Disconnect
  \/ \E t \in Tokens \cup {NoToken} : SetToken(t)
  \/ SockOpen
  \/ \E k \in StaleKinds : StaleOpen(k)
  \/ \E code \in CloseCodes : SockClose(code)
  \/ \E k \in StaleKinds, code \in CloseCodes : StaleClose(k, code)
  \/ \E old \in BOOLEAN : TimerFire(old)

SpecRetry == Init /\ [][NextRetry]_vars

\* ------------------------------------------------------------ properties
\* the open event of some transport happens in this step
Opens ==
  \/ socket.readyState = "CONNECTING" /\ socket'.readyState = "OPEN"
  \/ stale'["OPEN"] > stale["OPEN"]

\* a handshake is written to the current transport in this step
HandshakeSent ==
  /\ Len(socket'.written) = Len(socket.written) + 1
  /\ socket'.written[Len(socket'.written)] = "handshake"

\* an open or close event of a transport that this.socket no longer
\* references (connect and disconnect only ever add to them)
StaleEvent == stale' # stale /\ StaleTotal(stale') <= StaleTotal(stale)

\* C1: a reconnect timer that was pending when disconnect() was called never
\* runs connect(): when such a timer goes away, no transport is constructed
\* and this.socket does not change.
C1_DisconnectCancelsTimer ==
  [][(doomed' < doomed /\ timers' < timers) => UNCHANGED <<socket, stale>>]_vars

\* C2: the close event of a transport that disconnect() closed never
\* schedules a reconnect, whatever close code it carries.
C2_NoReconnectAfterDisconnect ==
  [][stale'["CLOSING"] < stale["CLOSING"] => timers' = timers]_vars

\* C3: at most one transport that is CONNECTING or OPEN exists at any time.
C3_OneLiveTransport ==
  (IF IsLive(socket) THEN 1 ELSE 0) + StaleTotal(stale) - stale["CLOSING"] <= 1

\* C4: an open or close event of a superseded transport changes neither the
\* keepalive timer, the pending reconnects, the attempt counter, the backoff
\* delay, the error reports nor what was written to the current transport,
\* and no store dispatch ever comes from a message of a superseded transport.
C4_StaleEventsAreNoOps ==
  [][/\ StaleEvent =>
          UNCHANGED <<socket, pingInterval, leaked, timers, reconnectAttempts,
                      reconnectTimeout, errors, dispatched>>
     /\ \A i \in 1..Len(dispatched') : dispatched'[i].current]_vars

\* C5: the attempt counter and the backoff delay are reset by an open event
\* on which the handshake is sent, and by no other step.
C5_ResetExactlyOnHandshake ==
  [][/\ (Opens /\ HandshakeSent) =>
          (reconnectAttempts' = 0 /\ reconnectTimeout' = BaseTimeout)
     /\ ~(Opens /\ HandshakeSent) =>
          (reconnectAttempts' >= reconnectAttempts /\ reconnectTimeout' >= reconnectTimeout)]_vars

\* C6: every open event leaves the keepalive interval armed.
C6_OpenArmsKeepalive == [][Opens => pingInterval' = "armed"]_vars

\* C7: the first message written to a transport is the handshake.
C7_HandshakeFirst ==
  socket.written # <<>> => socket.written[1] = "handshake"

\* C8: once KeepaliveTolerance keepalive periods have passed without inbound
\* traffic, the connection is no longer Open.
C8_SilenceForcesReconnect ==
  silent >= KeepaliveTolerance => ~IsOpen(socket)

\* C9: counted from the last open event (or from construction), the first
\* three consecutive abnormal closes schedule their reconnects with the
\* delays d, 2d, 4d.
C9_DelaysDouble ==
  [][(timers' = timers + 1 /\ run < 3) => reconnectTimeout = BaseTimeout * 2^run]_vars

\* C10: attemptReconnect schedules a timer only while the attempt counter is
\* below the maximum, and the delay it uses is a non-decreasing function of
\* the counter: compared with the previous scheduling, a counter that is not
\* smaller has a delay that is not smaller, and the other way round.
C10_DelayMonotoneAndCapped ==
  [][timers' > timers =>
       /\ reconnectAttempts < maxReconnectAttempts
       /\ lastSched # <<>> =>
            /\ reconnectAttempts >= lastSched[1] => reconnectTimeout >= lastSched[2]
            /\ reconnectAttempts <= lastSched[1] => reconnectTimeout <= lastSched[2]]_vars

\* exhaustion was reported with the counter above the maximum, after a
\* reconnect had been scheduled at the last counter value below it
C10_Witness ==
  /\ errors > 0
  /\ reconnectAttempts > maxReconnectAttempts
  /\ lastSched # <<>>
  /\ lastSched[1] = maxReconnectAttempts - 1

\* a close event with a code other than 1000 has run handleClose: it either
\* scheduled a retry or reported exhaustion
AbnormalCloseStep == timers' = timers + 1 \/ errors' = errors + 1

\* C11: from one abnormal close to the next, with no open event between the
\* two, the attempt counter has strictly increased, unless the maximum has
\* been reached.
C11_CounterIncreasesPerFailure ==
  [][(AbnormalCloseStep /\ run >= 1 /\ lastSched # <<>>)
       => \/ reconnectAttempts > lastSched[1]
          \/ reconnectAttempts >= maxReconnectAttempts]_vars

\* transports that can still deliver an open, message or abnormal close event
LiveTransports ==
  (IF IsLive(socket') THEN 1 ELSE 0) + StaleTotal(stale') - stale'["CLOSING"]

\* C12: when exhaustion is reported, the report is the only one, the client
\* is settled in Closed (no transport is still alive) and no retry timer is
\* pending, so nothing automatic can follow.
C12_ExhaustionIsTerminal ==
  [][errors' > errors
       => /\ errors' = 1
          /\ timers' = 0
          /\ LiveTransports = 0]_vars

\* the client has given up: exhaustion is reported, nothing is pending
Stopped ==
  /\ errors = 1
  /\ timers = 0
  /\ ~IsLive(socket)
  /\ reconnectAttempts = maxReconnectAttempts

\* every connection attempt fails with an abnormal close: no transport ever
\* opens, none closes with code 1000, and every transport does close
EveryAttemptFails ==
  /\ [](~IsOpen(socket))
  /\ [](socket.code # NormalClosure)
  /\ [](IsLive(socket) => <>(~IsLive(socket)))

\* C13: when the caller connects once and does nothing further, every retry
\* timer constructs exactly one transport and counts it, the counter never
\* passes 5, and the terminal error is reported exactly when five retries
\* have been made after the initial attempt; when moreover every attempt
\* fails with an abnormal close, the client does get there and stops.
C13_GivesUpAfterFiveRetries ==
  /\ [][timers' < timers
          => /\ socket'.readyState = "CONNECTING"
             /\ socket.readyState = "CLOSED"
             /\ reconnectAttempts' = reconnectAttempts + 1]_vars
  /\ [][errors' > errors
          => reconnectAttempts = maxReconnectAttempts /\ errors' = 1]_vars
  /\ [](reconnectAttempts <= maxReconnectAttempts)
  /\ EveryAttemptFails => ((userId # NoUser) ~> Stopped)

C13_Witness ==
  /\ Stopped
  /\ socket.readyState = "CLOSED"
  /\ socket.written = <<>>
  /\ run = 3

\* a transport, current or superseded, has closed with a code other than 1000
ClosedAbnormally ==
  \/ /\ IsLive(socket)
     /\ socket'.readyState = "CLOSED"
     /\ socket'.code # NormalClosure
  \/ run' > run

OpenConnectionLost == IsOpen(socket) /\ socket'.readyState = "CLOSED"

\* C15: whenever a connection that was Open is lost and the caller has not
\* called disconnect(), a retry is scheduled or the terminal error reported.
C15_OnlyDisconnectSuppresses ==
  [][OpenConnectionLost => AbnormalCloseStep]_vars

NoTransportOpen == ~IsOpen(socket) /\ stale["OPEN"] = 0

\* C16: in every state in which no transport is Open, and in every state
\* that follows disconnect() until the next connection attempt, no keepalive
\* interval is armed, neither the one this.pingInterval holds nor one whose
\* handle was lost.
C16_KeepaliveStopsWithConnection ==
  (NoTransportOpen \/ socket = Null) => (pingInterval = "null" /\ ~leaked)

\* C17: at most one keepalive interval is outstanding: handleOpen never arms
\* an interval while an earlier one is still armed.
C17_OneKeepaliveTimer == ~leaked

\* application data written to transport t
DataWrites(t) == Cardinality({i \in 1..Len(t.written) : t.written[i] = "data"})

\* C18: no step taken while this.socket is not Open writes application data,
\* then or on a later open or reconnect, and a send() that reports the local
\* failure leaves the transport untouched.
C18_NoWriteUnlessOpen ==
  [][~IsOpen(socket)
       => /\ DataWrites(socket') <= DataWrites(socket)
          /\ refused' # refused => socket' = socket]_vars

C18_Witness ==
  /\ refused
  /\ lastSched # <<>>
  /\ IsOpen(socket)
  /\ socket.written = <<"handshake">>

\* C19: the store dispatches made for the envelopes of a session are, one
\* for one and in the same order, the routed envelopes in the order in which
\* they arrived.
C19_DispatchInArrivalOrder ==
  /\ Len(dispatched) = Len(arrived)
  /\ \A i \in 1..Len(dispatched) : dispatched[i].type = ActionType(arrived[i])

C19_Witness ==
  /\ Len(dispatched) = 2
  /\ dispatched[1].type # dispatched[2].type
  /\ arrived = <<"goal_update", "chat_message">>

\* C20: when a sink throws, the exception does not leave handleMessage, the
\* connection state is as it was, and the envelope that arrives next is
\* dispatched like any other.
C20_SinkFailureIsolated ==
  [][arrived' # arrived
       => /\ ~escaped'
          /\ dispatched' = Append(dispatched, dispatched'[Len(dispatched')])
          /\ UNCHANGED <<socket, stale, reconnectAttempts, reconnectTimeout,
                         pingInterval, timers, errors, userId>>]_vars

C20_Witness ==
  /\ Len(dispatched) = 2
  /\ dispatched[1].threw
  /\ ~dispatched[2].threw
  /\ IsOpen(socket)
  /\ ~escaped

\* what a message event may not touch: the connection state of the service
ConnectionState ==
  <<socket, stale, reconnectAttempts, reconnectTimeout, pingInterval, leaked,
    timers, errors, userId>>

\* C21: an envelope of the unregistered type 'unknown-xyz' is dropped with a
\* diagnostic: no sink is invoked, nothing escapes, and the socket, the
\* attempt counter, the backoff delay and the keepalive timer are unchanged.
C21_UnknownTypeDropped ==
  [][(diag' # diag /\ diag' = <<"Unhandled message type", "unknown-xyz">>)
       => /\ UNCHANGED dispatched
          /\ ~escaped'
          /\ UNCHANGED ConnectionState]_vars

C21_Witness ==
  /\ diag = <<"Unhandled message type", "unknown-xyz">>
  /\ IsOpen(socket)
  /\ pingInterval = "armed"
  /\ dispatched = <<>>

\* the console lines of the three malformed messages
Malformed ==
  {<<"Error parsing WebSocket message", "not-json">>,
   <<"Error parsing WebSocket message", "json-null">>,
   <<"Unhandled message type", "no-type">>}

\* C22: a message that is not JSON, that decodes to null, or that has no
\* type is dropped: no sink is invoked, no exception leaves handleMessage and
\* the connection state is unchanged.
C22_MalformedDropped ==
  [][(diag' # diag /\ diag' \in Malformed)
       => /\ UNCHANGED dispatched
          /\ ~escaped'
          /\ UNCHANGED ConnectionState]_vars

C22_Witness ==
  /\ diag = <<"Error parsing WebSocket message", "json-null">>
  /\ IsOpen(socket)
  /\ socket.written = <<"handshake">>
  /\ dispatched = <<>>
  /\ ~escaped

\* the registry as the specification names it
Consumer ==
  [f \in Routed |->
     CASE f = "chat_message" -> "chat/messageReceived"
       [] f = "goal_update" -> "goals/goalUpdated"
       [] f = "transaction_update" -> "finance/transactionUpdated"
       [] f = "post_update" -> "community/postUpdated"]

\* C23: the sinks invoked are exactly one per routed envelope, each the
\* consumer the registry fixes for the envelope's type and with the
\* envelope's data as payload; 'pong' and every other frame invoke none.
C23_RoutingFixed ==
  /\ Len(dispatched) = Len(arrived)
  /\ \A i \in 1..Len(dispatched) :
       /\ dispatched[i].type = Consumer[arrived[i]]
       /\ dispatched[i].payload = "message.data"

C23_Witness ==
  /\ Len(dispatched) = 2
  /\ dispatched[1].type = "finance/transactionUpdated"
  /\ dispatched[2].type = "community/postUpdated"
  /\ diag # <<>>

\* C24: a connect(u) made while the connection is Open for the same
\* identity u constructs no transport, sends nothing, and leaves the socket,
\* the retained identity, the attempt counter, the backoff delay, the
\* keepalive timer and the pending retries as they were.
C24_ConnectIdempotentWhenOpen ==
  [][\A u \in Users :
       (IsOpen(socket) /\ socket.user = u /\ Connect(u))
         => /\ socket' = [socket EXCEPT !.asked = u]
            /\ UNCHANGED <<stale, userId, reconnectAttempts, reconnectTimeout,
                           pingInterval, leaked, timers, errors>>]_vars

\* the connection is Open for the identity the caller asked for last, which
\* is the state a repeated connect() for that identity starts and ends in
C24_Witness ==
  /\ IsOpen(socket)
  /\ socket.asked = socket.user
  /\ userId = socket.user
  /\ socket.written = <<"handshake">>
  /\ stale = [k \in StaleKinds |-> 0]

\* connect() is called for an identity other than the one the Open
\* connection serves
ConnectOtherWhenOpen ==
  /\ IsOpen(socket)
  /\ socket'.asked \in Users
  /\ socket'.asked # socket.asked
  /\ socket'.asked # socket.user

\* C25: a connect() for another identity made while the connection is Open
\* closes the old transport, stops its keepalive, and starts Connecting for
\* the new identity, which the service retains.
C25_ConnectSwitchesIdentity ==
  [][ConnectOtherWhenOpen
       => /\ socket'.readyState = "CONNECTING"
          /\ socket'.user = socket'.asked
          /\ userId' = socket'.asked
          /\ pingInterval' = "null"
          /\ stale'["OPEN"] = stale["OPEN"]]_vars

\* C26: in one logical session every automatic reconnect constructs its
\* transport for the identity that was passed to connect() and that the
\* failed transport had, and keeps that identity retained.
C26_ReconnectKeepsIdentity ==
  [][timers' < timers
       => /\ socket'.readyState = "CONNECTING"
          /\ socket'.user = socket.user
          /\ socket'.user = userId
          /\ userId' = userId]_vars

C26_Witness ==
  /\ reconnectAttempts = 2
  /\ IsOpen(socket)
  /\ socket.user = "u2"
  /\ userId = "u2"

\* C27: the attempt counter never passes the maximum.
C27_CounterBounded ==
  reconnectAttempts >= 0 /\ reconnectAttempts <= maxReconnectAttempts

\* C28: the backoff delay is always 1000 * 2^reconnectAttempts.
C28_DelayInLockstep == reconnectTimeout = BaseTimeout * 2^reconnectAttempts

C28_Witness ==
  /\ reconnectAttempts = 3
  /\ reconnectTimeout = 8000
  /\ timers > 0

\* C29: state.websocket.connected is true only while the service's transport
\* is Open (never while it is Connecting or a retry is pending), and once
\* the attempts are exhausted the slice holds connected = false with a
\* non-null error.
C29_StatusTracksConnection ==
  /\ connected => IsOpen(socket)
  /\ Stopped => (~connected /\ error # "null")

\* C30: a connectWebSocket thunk whose connect() call throws does not throw
\* itself: it ends as a report in the slice, connected = false and error set
\* to the failure's message.
C30_ThunkReportsFailure ==
  /\ thunk # "threw"
  /\ thunk = "reported" => (~connected /\ error = "message")

====
